---- MODULE Spec2Model ----
(***************************************************************************)
(* A model of src/main.rs: WeakSet<T>, a set of raw addresses of entries   *)
(* it does not own, and Entry<T>, a value with a raw back pointer to the   *)
(* WeakSet it is part of.  Storage is a heap of NumSets WeakSet slots and  *)
(* NumEnts Entry slots; an address is a slot number, and a freed slot can  *)
(* be allocated again.                                                     *)
(***************************************************************************)
EXTENDS Naturals, FiniteSets

\* Bounds of the model: heap slots for WeakSets and for Entries, and the number
\* of Arc clones outstanding at a time (main() makes one: entry3).
NumSets == 2
NumEnts == 2
MaxClones == 1

Sets == 1..NumSets
Ents == 1..NumEnts

\* The payloads main() stores: Entry::new(42), Entry::new(43).
Values == {42, 43}

\* Option::None of Entry.collection; also the content of freed storage.
None == 0

VARIABLES
    live,        \* the WeakSet addresses whose storage is allocated
    objects,     \* WeakSet.objects: address of WeakSet -> set of Entry addresses
    handles,     \* number of owning handles of the Entry at an address (0: storage free)
    x,           \* Entry.x
    collection,  \* Entry.collection: the address of a WeakSet, or None
    view,        \* the Iter alive, if any
    res          \* how the operation executed last ended: "ok", "panic" or "ub"
                 \* (it dereferenced an address whose storage is free)

vars == <<live, objects, handles, x, collection, view, res>>

NoYield == [v \in Values |-> 0]

\* No Iter is alive.  The fields visited, yielded and clean of a view are the
\* history of its traversal, not state of the program: the addresses next() has
\* returned and how often each payload was read through them, kept for as long
\* as the set under the view has not changed (clean).
NoView == [reg |-> None, pending |-> {}, visited |-> {}, yielded |-> NoYield,
           clean |-> TRUE]

Alive(e) == handles[e] > 0

LiveEnts == {e \in Ents : Alive(e)}

\* Arc clones outstanding: the owning handles beyond the first of each entry.
Clones == Cardinality({p \in Ents \X (1..MaxClones) : p[2] < handles[p[1]]})

\* The Iter borrows the WeakSet it was made from (Iter<'_, T> of Pin<&Self>):
\* while it is alive the WeakSet can neither be borrowed mutably nor dropped.
Borrowed(r) == view.reg = r

Init ==
    /\ live = {}
    /\ objects = [r \in Sets |-> {}]
    /\ handles = [e \in Ents |-> 0]
    /\ x = [e \in Ents |-> None]
    /\ collection = [e \in Ents |-> None]
    /\ view = NoView
    /\ res = "ok"

\* WeakSet::new, placed by Box::pin at a free address.
WeakSetNew(r) ==
    /\ r \notin live
    /\ live' = live \cup {r}
    /\ objects' = [objects EXCEPT ![r] = {}]
    /\ res' = "ok"
    /\ UNCHANGED <<handles, x, collection, view>>

\* Entry::new(v), placed by Box::pin or Arc::pin at a free address.
EntryNew(e, v) ==
    /\ ~Alive(e)
    /\ handles' = [handles EXCEPT ![e] = 1]
    /\ x' = [x EXCEPT ![e] = v]
    /\ collection' = [collection EXCEPT ![e] = None]
    /\ res' = "ok"
    /\ UNCHANGED <<live, objects, view>>

\* Arc::clone of a handle of the entry.
ArcClone(e) ==
    /\ Alive(e)
    /\ Clones < MaxClones
    /\ handles' = [handles EXCEPT ![e] = @ + 1]
    /\ res' = "ok"
    /\ UNCHANGED <<live, objects, x, collection, view>>

\* Insert without the back pointer: the entry's collection is left None.
InsertNoBackPointer(r, e) ==
    /\ r \in live
    /\ Alive(e)
    /\ ~Borrowed(r)
    /\ IF collection[e] # None
       THEN /\ res' = "panic"
            /\ UNCHANGED objects
       ELSE /\ objects' = [objects EXCEPT ![r] = @ \cup {e}]
            /\ res' = "ok"
    /\ UNCHANGED <<live, handles, x, collection, view>>

\* Insert without the is_some() check: a registered entry is registered again.
InsertNoCheck(r, e) ==
    /\ r \in live
    /\ Alive(e)
    /\ ~Borrowed(r)
    /\ objects' = [objects EXCEPT ![r] = @ \cup {e}]
    /\ collection' = [collection EXCEPT ![e] = r]
    /\ res' = "ok"
    /\ UNCHANGED <<live, handles, x, view>>

\* Insert that stores the entry's address in place of the set's content.
InsertReplaces(r, e) ==
    /\ r \in live
    /\ Alive(e)
    /\ ~Borrowed(r)
    /\ IF collection[e] # None
       THEN /\ res' = "panic"
            /\ UNCHANGED <<objects, collection>>
       ELSE /\ objects' = [objects EXCEPT ![r] = {e}]
            /\ collection' = [collection EXCEPT ![e] = r]
            /\ res' = "ok"
    /\ UNCHANGED <<live, handles, x, view>>

\* WeakSet::insert: panics when the entry is part of a collection; otherwise
\* stores the entry's address in objects and the WeakSet's address in the entry.
Insert(r, e) ==
    /\ r \in live
    /\ Alive(e)
    /\ ~Borrowed(r)
    /\ IF collection[e] # None
       THEN /\ res' = "panic"
            /\ UNCHANGED <<objects, collection>>
       ELSE /\ objects' = [objects EXCEPT ![r] = @ \cup {e}]
            /\ collection' = [collection EXCEPT ![e] = r]
            /\ res' = "ok"
    /\ UNCHANGED <<live, handles, x, view>>

\* WeakSet::iter: an Iter over the addresses in objects.  The Ref taken by
\* borrow() is a local of iter() and is released when iter() returns.
Iter(r) ==
    /\ r \in live
    /\ view = NoView
    /\ view' = [reg |-> r, pending |-> objects[r], visited |-> {},
                yielded |-> NoYield, clean |-> TRUE]
    /\ res' = "ok"
    /\ UNCHANGED <<live, objects, handles, x, collection>>

\* next() that returns an address and leaves the iterator where it was.
AdvanceNoProgress(e, v) ==
    [view EXCEPT !.visited = IF view.clean THEN @ \cup {e} ELSE @,
                 !.yielded = IF view.clean /\ v \in Values
                             THEN [@ EXCEPT ![v] = @ + 1] ELSE @]

\* The view after next() has returned the address e and read the payload v.
Advance(e, v) ==
    [view EXCEPT !.pending = @ \ {e},
                 !.visited = IF view.clean THEN @ \cup {e} ELSE @,
                 !.yielded = IF view.clean /\ v \in Values
                             THEN [@ EXCEPT ![v] = @ + 1] ELSE @]

\* Iter::next: the next address of the hash set's iterator, in no specified
\* order, dereferenced (&**x).  An address whose entry has been freed is a
\* dangling reference: reading through it yields whatever the storage holds.
IterNext ==
    /\ view # NoView
    /\ IF view.pending = {}
       THEN /\ res' = "ok"
            /\ UNCHANGED view
       ELSE \E e \in view.pending :
               IF Alive(e)
               THEN /\ view' = Advance(e, x[e])
                    /\ res' = "ok"
               ELSE \E v \in Values \cup {None} :
                       /\ view' = Advance(e, v)
                       /\ res' = "ub"
    /\ UNCHANGED <<live, objects, handles, x, collection>>

\* The Iter goes out of scope.
IterDrop ==
    /\ view # NoView
    /\ view' = NoView
    /\ res' = "ok"
    /\ UNCHANGED <<live, objects, handles, x, collection>>

\* Drop for WeakSet that clears the back pointer of one member only.
WeakSetDropFirstOnly(r) ==
    /\ r \in live
    /\ ~Borrowed(r)
    /\ collection' = [e \in Ents |->
                        IF /\ objects[r] # {}
                           /\ e = CHOOSE m \in objects[r] : TRUE
                           /\ Alive(e)
                        THEN None ELSE collection[e]]
    /\ live' = live \ {r}
    /\ objects' = [objects EXCEPT ![r] = {}]
    /\ res' = IF objects[r] \subseteq LiveEnts THEN "ok" ELSE "ub"
    /\ UNCHANGED <<handles, x, view>>

\* A WeakSet without its Drop: the storage is released, the members keep
\* their back pointers.
WeakSetDropNoClear(r) ==
    /\ r \in live
    /\ ~Borrowed(r)
    /\ live' = live \ {r}
    /\ objects' = [objects EXCEPT ![r] = {}]
    /\ res' = "ok"
    /\ UNCHANGED <<handles, x, collection, view>>

\* Drop for WeakSet that clears the back pointer of every live entry, member
\* or not.
WeakSetDropClearsEveryEntry(r) ==
    /\ r \in live
    /\ ~Borrowed(r)
    /\ collection' = [e \in Ents |-> None]
    /\ live' = live \ {r}
    /\ objects' = [objects EXCEPT ![r] = {}]
    /\ res' = IF objects[r] \subseteq LiveEnts THEN "ok" ELSE "ub"
    /\ UNCHANGED <<handles, x, view>>

\* Drop for WeakSet that overwrites the members it unlinks: the payload goes
\* with the back pointer.
WeakSetDropWipesPayload(r) ==
    /\ r \in live
    /\ ~Borrowed(r)
    /\ collection' = [e \in Ents |->
                        IF e \in objects[r] /\ Alive(e) THEN None
                        ELSE collection[e]]
    /\ x' = [e \in Ents |-> IF e \in objects[r] THEN None ELSE x[e]]
    /\ live' = live \ {r}
    /\ objects' = [objects EXCEPT ![r] = {}]
    /\ res' = IF objects[r] \subseteq LiveEnts THEN "ok" ELSE "ub"
    /\ UNCHANGED <<handles, view>>

\* Drop for WeakSet, then the release of its storage: every address in objects
\* is dereferenced and that entry's collection set to None.
WeakSetDrop(r) ==
    /\ r \in live
    /\ ~Borrowed(r)
    /\ collection' = [e \in Ents |->
                        IF e \in objects[r] /\ Alive(e) THEN None
                        ELSE collection[e]]
    /\ live' = live \ {r}
    /\ objects' = [objects EXCEPT ![r] = {}]
    /\ res' = IF objects[r] \subseteq LiveEnts THEN "ok" ELSE "ub"
    /\ UNCHANGED <<handles, x, view>>

\* What the hash set's iterator of a live view does once e has been removed
\* from the table under it: it may have loaded e's bucket already and still
\* return it, or skip it.  The traversal's history ends here.
Disturbed(e) ==
    {[view EXCEPT !.pending = p, !.visited = {}, !.yielded = NoYield,
                  !.clean = FALSE] : p \in {view.pending, view.pending \ {e}}}

\* An Entry without its Drop: the storage is released, the WeakSet keeps the
\* address.
EntryDropNoUnlink(e) ==
    /\ handles' = [handles EXCEPT ![e] = 0]
    /\ x' = [x EXCEPT ![e] = None]
    /\ collection' = [collection EXCEPT ![e] = None]
    /\ res' = "ok"
    /\ UNCHANGED <<live, objects, view>>

\* Drop for Entry that empties the WeakSet (clear() for remove()).
EntryDropClearsAll(e) ==
    /\ IF collection[e] # None /\ collection[e] \in live
       THEN /\ objects' = [objects EXCEPT ![collection[e]] = {}]
            /\ view' \in IF Borrowed(collection[e]) THEN Disturbed(e) ELSE {view}
       ELSE UNCHANGED <<objects, view>>
    /\ handles' = [handles EXCEPT ![e] = 0]
    /\ x' = [x EXCEPT ![e] = None]
    /\ collection' = [collection EXCEPT ![e] = None]
    /\ res' = IF collection[e] # None /\ collection[e] \notin live
              THEN "ub" ELSE "ok"
    /\ UNCHANGED live

\* Drop for Entry with the test inverted: the pointer is dereferenced when
\* collection is None and the WeakSet is left alone when it is Some.
EntryDropInverted(e) ==
    /\ handles' = [handles EXCEPT ![e] = 0]
    /\ x' = [x EXCEPT ![e] = None]
    /\ collection' = [collection EXCEPT ![e] = None]
    /\ res' = IF collection[e] = None THEN "ub" ELSE "ok"
    /\ UNCHANGED <<live, objects, view>>

\* Drop for Entry, then the release of its storage: if collection is Some, the
\* WeakSet behind the pointer is dereferenced and this address removed from
\* its objects.
EntryDrop(e) ==
    /\ IF collection[e] # None /\ collection[e] \in live
       THEN /\ objects' = [objects EXCEPT ![collection[e]] = @ \ {e}]
            /\ view' \in IF Borrowed(collection[e]) THEN Disturbed(e) ELSE {view}
       ELSE UNCHANGED <<objects, view>>
    /\ handles' = [handles EXCEPT ![e] = 0]
    /\ x' = [x EXCEPT ![e] = None]
    /\ collection' = [collection EXCEPT ![e] = None]
    /\ res' = IF collection[e] # None /\ collection[e] \notin live
              THEN "ub" ELSE "ok"
    /\ UNCHANGED live

\* A handle whose drop runs the entry's Drop each time, not only the last time.
HandleDropAlwaysUnlinks(e) ==
    /\ Alive(e)
    /\ IF handles[e] > 1
       THEN /\ handles' = [handles EXCEPT ![e] = @ - 1]
            /\ objects' = [r \in Sets |-> IF r = collection[e]
                                           THEN objects[r] \ {e} ELSE objects[r]]
            /\ res' = "ok"
            /\ UNCHANGED <<live, x, collection, view>>
       ELSE EntryDrop(e)

\* drop of one owning handle (the Box, or one Arc): the entry is dropped when
\* the handle is the last one.
HandleDrop(e) ==
    /\ Alive(e)
    /\ IF handles[e] > 1
       THEN /\ handles' = [handles EXCEPT ![e] = @ - 1]
            /\ res' = "ok"
            /\ UNCHANGED <<live, objects, x, collection, view>>
       ELSE EntryDrop(e)

Next ==
    \/ \E r \in Sets : WeakSetNew(r)
    \/ \E e \in Ents, v \in Values : EntryNew(e, v)
    \/ \E e \in Ents : ArcClone(e)
    \/ \E r \in Sets, e \in Ents : Insert(r, e)
    \/ \E r \in Sets : Iter(r)
    \/ IterNext
    \/ IterDrop
    \/ \E r \in Sets : WeakSetDrop(r)
    \/ \E e \in Ents : HandleDrop(e)

Spec == Init /\ [][Next]_vars

(***************************************************************************)
(* The properties of the specification, checked against the model.         *)
(***************************************************************************)

\* The live WeakSets whose objects hold the address e.
Holders(e) == {r \in live : e \in objects[r]}

\* C1. Membership symmetry: for every live WeakSet r and every live Entry e,
\* e's address is in r.objects if and only if e.collection is Some(r).
C1_MembershipSymmetry ==
    \A r \in live : \A e \in LiveEnts : (e \in objects[r]) <=> (collection[e] = r)

\* A member and a live entry that is no member, each on its side of C1.
C1_Witness ==
    \E r \in live : \E e, f \in LiveEnts :
        /\ e \in objects[r] /\ collection[e] = r
        /\ f \notin objects[r] /\ collection[f] = None

\* No live WeakSet holds the address of a freed Entry, and no live Entry
\* points to a freed WeakSet.
NoDanglingObjects == \A r \in live : objects[r] \subseteq LiveEnts

NoDanglingCollection ==
    \A e \in LiveEnts : collection[e] # None => collection[e] \in live

\* C2 as stated. No dangling reference: no live WeakSet's objects contains the
\* address of a freed Entry, no live Entry's collection names a freed WeakSet,
\* and every dereference made by insert, iterate and the two Drop hooks targets
\* a live object (no operation ends "ub").
C2_Original ==
    /\ NoDanglingObjects
    /\ NoDanglingCollection
    /\ res # "ub"

\* The part of C2 that holds of the code: the two sets of stored addresses
\* never dangle, and an operation that dereferences freed storage is a next()
\* on a view under which a member was destroyed since iter() made it; a view
\* not so disturbed holds the addresses of live entries only.
C2_NoDangling ==
    /\ NoDanglingObjects
    /\ NoDanglingCollection
    /\ view.clean => view.pending \subseteq LiveEnts
    /\ res = "ub" => (view # NoView /\ ~view.clean)

\* C3. Registry-first destruction: a step that releases the WeakSet r has set
\* collection to None in every entry that was in r.objects, dereferencing live
\* entries only, and each of them is still alive with the same handles and
\* the same readable payload.
C3_RegistryFirst ==
    [][\A r \in Sets :
          (r \in live /\ r \notin live') =>
             /\ res' = "ok"
             /\ \A e \in objects[r] :
                   /\ handles[e] > 0
                   /\ handles'[e] = handles[e]
                   /\ collection'[e] = None
                   /\ x[e] \in Values
                   /\ x'[e] = x[e]]_vars

\* A WeakSet with two members that can be dropped.
C3_Witness ==
    \E r \in live : Cardinality(objects[r]) >= 2 /\ ENABLED WeakSetDrop(r)

C5_DoubleInsertFault ==
    [][\A r \in Sets : \A e \in Ents :
          (Insert(r, e) /\ collection[e] # None) =>
             /\ res' = "panic"
             /\ UNCHANGED <<live, objects, handles, x, collection, view>>]_vars

\* After a panic: an entry that is still the member of the one WeakSet it was
\* inserted into, with a second WeakSet alive that does not hold it.
C5_Witness ==
    /\ res = "panic"
    /\ \E e \in LiveEnts : \E q \in live :
          /\ collection[e] \in live
          /\ Holders(e) = {collection[e]}
          /\ q # collection[e]

\* C6. Single membership: each live entry's address is in the objects of at
\* most one live WeakSet.
C6_SingleMembership ==
    \A e \in LiveEnts : Cardinality(Holders(e)) <= 1

\* After a faulting insert with two WeakSets alive, each holding a member.
C6_Witness ==
    /\ res = "panic"
    /\ \E q, r \in live : q # r /\ objects[q] # {} /\ objects[r] # {}

C9_IterationComplete ==
    (view # NoView /\ view.clean) =>
        /\ view.reg \in live
        /\ view.pending \cap view.visited = {}
        /\ view.pending \cup view.visited = objects[view.reg]
        /\ \A v \in Values :
              view.yielded[v] = Cardinality({e \in view.visited : x[e] = v})

\* An exhausted, undisturbed view that returned two members with equal payload.
C9_Witness ==
    /\ view # NoView /\ view.clean
    /\ view.pending = {}
    /\ \E v \in Values : view.yielded[v] = 2

\* C10. Fault freedom under correct usage: an operation that panics is an
\* insert on an entry whose collection is Some, and an operation that
\* dereferences freed storage is a next() on a view under which a member was
\* destroyed.  Creation, iteration of an undisturbed view, entry destruction
\* and WeakSet destruction end "ok".
C10_FaultFreedom ==
    [][/\ res' = "panic" =>
             \E r \in Sets : \E e \in Ents : Insert(r, e) /\ collection[e] # None
       /\ res' = "ub" => (IterNext /\ ~view.clean)]_vars

\* An undisturbed traversal under way after an entry and a WeakSet have been
\* created, inserted and iterated without fault.
C10_Witness ==
    /\ res = "ok"
    /\ view # NoView /\ view.clean
    /\ view.visited # {} /\ view.pending # {}
    /\ Cardinality(live) = NumSets

\* C11. Empty registry: a view of a WeakSet whose objects is empty, with no
\* member destroyed under it, has nothing to return and has returned nothing;
\* and a step that releases a WeakSet whose objects is empty changes no entry's
\* collection, payload or handles and no other WeakSet's objects or storage.
C11_EmptyRegistry ==
    /\ [](\A r \in live :
             (view.reg = r /\ view.clean /\ objects[r] = {}) =>
                /\ view.pending = {}
                /\ view.visited = {}
                /\ view.yielded = NoYield)
    /\ [][\A r \in Sets :
             (r \in live /\ r \notin live' /\ objects[r] = {}) =>
                /\ res' = "ok"
                /\ collection' = collection
                /\ x' = x
                /\ handles' = handles
                /\ live' = live \ {r}
                /\ \A q \in Sets \ {r} : objects'[q] = objects[q]]_vars

\* An empty WeakSet that can be dropped while another WeakSet has a member and
\* an entry slot is free.
C11_Witness ==
    \E r, q \in live :
        /\ objects[r] = {} /\ ENABLED WeakSetDrop(r)
        /\ objects[q] # {}
        /\ \E f \in Ents : ~Alive(f)

\* C12. Value stability: every live entry holds a readable payload; Entry::new
\* stores the value it is given; and no step changes the payload of an entry
\* that is alive before and after it, whatever its collection: not insert, not
\* iteration, not the destruction of its WeakSet or of other entries.
C12_ValueStability ==
    /\ [](\A e \in LiveEnts : x[e] \in Values)
    /\ [][/\ \A e \in Ents : \A v \in Values : EntryNew(e, v) => x'[e] = v
          /\ \A e \in Ents :
                (handles[e] > 0 /\ handles'[e] > 0) => x'[e] = x[e]]_vars

\* An unregistered entry holding 43 beside a registered entry whose payload a
\* view has read.
C12_Witness ==
    \E e, f \in LiveEnts :
        /\ x[e] = 43 /\ collection[e] = None
        /\ collection[f] \in live
        /\ Cardinality(live) = 1
        /\ view.reg = collection[f] /\ f \in view.visited

\* C13. Membership transitions: a new entry has collection None and a new
\* WeakSet has empty objects.  For an entry alive before and after a step,
\* collection goes from None to Some(r) only by a successful insert(r, e),
\* from Some(r) to None only by the release of r, and never from Some(r) to
\* another Some.  For a WeakSet alive before and after a step, an address
\* enters objects only by insert(r, e) and leaves it only by the destruction
\* of that entry.
C13_MembershipTransitions ==
    [][/\ \A e \in Ents :
             (handles[e] = 0 /\ handles'[e] > 0) => collection'[e] = None
       /\ \A r \in Sets : (r \notin live /\ r \in live') => objects'[r] = {}
       /\ \A e \in Ents :
             (handles[e] > 0 /\ handles'[e] > 0 /\ collection'[e] # collection[e]) =>
                IF collection[e] = None
                THEN Insert(collection'[e], e) /\ res' = "ok"
                ELSE /\ collection'[e] = None
                     /\ collection[e] \in live
                     /\ collection[e] \notin live'
       /\ \A r \in live \cap live' : \A e \in Ents :
             /\ (e \notin objects[r] /\ e \in objects'[r]) =>
                   (Insert(r, e) /\ res' = "ok")
             /\ (e \in objects[r] /\ e \notin objects'[r]) =>
                   (handles[e] = 1 /\ handles'[e] = 0)]_vars

\* A registered entry whose WeakSet can be dropped, beside an unregistered
\* entry that can be inserted into it.
C13_Witness ==
    \E r \in live : \E e, f \in LiveEnts :
        /\ collection[e] = r /\ collection[f] = None
        /\ ENABLED WeakSetDrop(r)
        /\ ENABLED Insert(r, f)
        /\ handles[e] = 2

C15_UnregisteredEntryDrop ==
    [][\A e \in Ents :
          (handles[e] > 0 /\ handles'[e] = 0 /\ collection[e] = None) =>
             /\ res' = "ok"
             /\ objects' = objects
             /\ live' = live
             /\ view' = view
             /\ \A f \in Ents \ {e} :
                   /\ collection'[f] = collection[f]
                   /\ x'[f] = x[f]
                   /\ handles'[f] = handles[f]]_vars

\* An unregistered entry with one handle that can be dropped, beside a
\* registered entry and under a view of that entry's WeakSet.
C15_Witness ==
    \E e, f \in LiveEnts :
        /\ collection[e] = None /\ handles[e] = 1
        /\ ENABLED HandleDrop(e)
        /\ collection[f] \in live
        /\ view.reg = collection[f]

\* C16. Locality of insert and registry destruction: a successful
\* insert(r, e) changes no WeakSet's objects but r's, allocates and frees
\* nothing, and changes no entry but e, of which only collection; the release
\* of r changes no other WeakSet's objects or storage, no entry's payload or
\* handles, and the collection of no entry that was not in r.objects.
C16_Locality ==
    [][/\ \A r \in Sets : \A e \in Ents :
             (Insert(r, e) /\ collection[e] = None) =>
                /\ \A q \in Sets \ {r} : objects'[q] = objects[q]
                /\ live' = live
                /\ x' = x
                /\ handles' = handles
                /\ \A f \in Ents \ {e} : collection'[f] = collection[f]
       /\ \A r \in Sets :
             (r \in live /\ r \notin live') =>
                /\ \A q \in Sets \ {r} : objects'[q] = objects[q]
                /\ live' = live \ {r}
                /\ x' = x
                /\ handles' = handles
                /\ \A f \in Ents \ objects[r] : collection'[f] = collection[f]]_vars

\* Two WeakSets with a member each, one of which can be dropped, and no view.
C16_Witness ==
    \E q, r \in live :
        /\ q # r
        /\ objects[q] # {} /\ objects[r] # {}
        /\ view = NoView
        /\ ENABLED WeakSetDrop(r)
        /\ res = "ok"

====
